---------------------------- MODULE Spec2Model ----------------------------
(***************************************************************************)
(* A model of the surfboard API gateway: the Gateway's endpoint/proxy map   *)
(* and callback registration, and the per-request pipeline of               *)
(* Proxy.Handler (method check, backend URL parse, Director with the        *)
(* pre-backend callback chain, the backend round trip with its              *)
(* response-header timeout, ModifyResponse with the post-backend callback   *)
(* chain, the ErrorHandler, the LoggingResponseWriter capture, LogResponse  *)
(* and RecordRequest).                                                      *)
(*                                                                         *)
(* Requests are served one after another by the model: handlers share no   *)
(* state with each other, only the callback lists, which registration may  *)
(* append to at any step of a request.                                     *)
(***************************************************************************)
EXTENDS Integers, Sequences, FiniteSets, TLC

VARIABLES
    config,     \* Gateway.config.Endpoints: path -> Endpoint
    telemetry,  \* Gateway.telemetry, handed to every Proxy: "nil" or "manager"
    proxies,    \* Gateway.proxies: path -> Proxy (its two callback lists)
    regs,       \* number of callback registration calls made so far
    nreq,       \* number of requests delivered to a handler so far
    rq,         \* the Proxy Context of the request being served
    dctx,       \* the Director's work on one outbound request, step by step
    lrw,        \* a LoggingResponseWriter and the writer it wraps
    proc        \* the process: main from the start of the server to its exit

vars == <<config, telemetry, proxies, regs, nreq, rq, dctx, lrw, proc>>

---------------------------------------------------------------------------
(* Bounds of the model. *)

MaxRegs == 2        \* callback registration calls
MaxRequests == 2    \* requests served
MaxWait == 3        \* clock ticks a dispatched request may wait

---------------------------------------------------------------------------
(* Status codes written by the pipeline. *)

StatusOK == 200
StatusMethodNotAllowed == 405
StatusInternalServerError == 500
StatusBadGateway == 502

---------------------------------------------------------------------------
(* Configuration values the endpoints are drawn from. *)

Paths == {"/a"}                          \* Endpoint.Path of the endpoints
ConfigPaths == {"/a", "/b"}              \* Endpoint.Path, two endpoints
\* The paths given to Gateway.Add*Callback; a configuration over Paths has
\* no endpoint for "/b".
GatewayPaths == ConfigPaths
Methods == {"GET", "POST"}               \* methods of inbound requests
MethodFilters == {"", "GET"}             \* Endpoint.Method
Timeouts == {0, 2}                       \* Endpoint.Timeout, in clock ticks
BackendStatuses == {200, 404}            \* statuses a backend answers with

\* Endpoint.Backend as a sequence of characters: "h://b/u" and "://x".
BackendGood == <<"h", ":", "/", "/", "b", "/", "u">>
BackendBad == <<":", "/", "/", "x">>
Backends == {BackendGood, BackendBad}

Letters == {"h", "b", "u", "x"}

Endpoints == [Method : MethodFilters, Backend : Backends, Timeout : Timeouts]

---------------------------------------------------------------------------
(* url.Parse, as far as its result decides the handler: the scheme scan.    *)
(* A leading ':' is "missing protocol scheme"; letters continue the scan;  *)
(* any other character ends it with no scheme and no error.                *)

RECURSIVE SchemeScan(_, _)
SchemeScan(raw, i) ==
    IF i > Len(raw) THEN "noscheme"
    ELSE IF raw[i] \in Letters THEN SchemeScan(raw, i + 1)
    ELSE IF raw[i] = ":" THEN (IF i = 1 THEN "error" ELSE "scheme")
    ELSE "noscheme"

\* (mutant) a parse that reports no error.
UrlParseFails_Never(raw) == FALSE

UrlParseFails(raw) == SchemeScan(raw, 1) = "error"


---------------------------------------------------------------------------
(* Callbacks.  A callback is one of three functions a caller may register: *)
(*   "set"      sets its header on the object it is given and returns it    *)
(*              (the callbacks of proxy_test.go);                           *)
(*   "replace"  returns a deep copy of the object it is given, with its     *)
(*              header set on the copy;                                     *)
(*   "fault"    panics.                                                     *)
(* The header a callback sets is named after the callback.                  *)

Callbacks == {"set", "replace", "fault"}

\* The telemetry argument of NewGateway / NewProxy: main passes a manager,
\* the tests of the proxy pass nil.
Telemetries == {"nil", "manager"}

\* The outcomes the environment picks for a backend round trip.
BackendModes == {"respond", "fault", "hang"}

---------------------------------------------------------------------------
(* Events of a request, in the order they happen. *)

Ev(t, v) == [t |-> t, v |-> v]

Count(ev, t) == Cardinality({i \in DOMAIN ev : ev[i].t = t})

\* The positions of the events of type t.
Pos(ev, t) == {i \in DOMAIN ev : ev[i].t = t}

\* The values of the events of type t, in order.
RECURSIVE Values(_, _)
Values(ev, t) ==
    IF ev = <<>> THEN <<>>
    ELSE IF Head(ev).t = t THEN <<Head(ev).v>> \o Values(Tail(ev), t)
    ELSE Values(Tail(ev), t)

IsPrefix(s, t) == Len(s) <= Len(t) /\ SubSeq(t, 1, Len(s)) = s

\* The values a list read without synchronisation may show: every value it
\* had between `old` and `cur` (the list only grows by appends).
Between(old, cur) == {SubSeq(cur, 1, n) : n \in Len(old)..Len(cur)}

---------------------------------------------------------------------------
(* Strings, as sequences of one-character strings, and the functions of    *)
(* package strings that the path code calls.                               *)

\* strings.HasPrefix(s, prefix)
HasPrefix(s, prefix) ==
    Len(prefix) <= Len(s) /\ SubSeq(s, 1, Len(prefix)) = prefix

\* strings.HasSuffix(s, suffix)
HasSuffix(s, suffix) ==
    Len(suffix) <= Len(s)
        /\ SubSeq(s, Len(s) - Len(suffix) + 1, Len(s)) = suffix

\* strings.Split(s, sep) for a one-character sep: the pieces between the
\* separators, empty pieces included; the empty string gives one empty piece.
RECURSIVE SplitFrom(_, _, _, _)
SplitFrom(s, sep, i, cur) ==
    IF i > Len(s) THEN <<cur>>
    ELSE IF s[i] = sep THEN <<cur>> \o SplitFrom(s, sep, i + 1, <<>>)
    ELSE SplitFrom(s, sep, i + 1, Append(cur, s[i]))

Split(s, sep) == SplitFrom(s, sep, 1, <<>>)

\* strings.Replace(s, old, new, -1) for a non-empty old: the occurrences of
\* old are found left to right, without overlap, and the text put in place
\* of one is not searched again.
RECURSIVE ReplaceFrom(_, _, _, _)
ReplaceFrom(s, old, new, i) ==
    IF i > Len(s) THEN <<>>
    ELSE IF HasPrefix(SubSeq(s, i, Len(s)), old)
         THEN new \o ReplaceFrom(s, old, new, i + Len(old))
    ELSE <<s[i]>> \o ReplaceFrom(s, old, new, i + 1)

Replace(s, old, new) == ReplaceFrom(s, old, new, 1)

\* strings.Contains(s, substr)
Contains(s, substr) ==
    \E i \in 1..(Len(s) + 1) : HasPrefix(SubSeq(s, i, Len(s)), substr)

---------------------------------------------------------------------------
(* Go maps with string keys, as functions, and PathParamExtractor.Extract.  *)

EmptyMap == [k \in {} |-> <<>>]

\* m[k] = v
MapSet(m, k, v) == [x \in DOMAIN m \cup {k} |-> IF x = k THEN v ELSE m[x]]

\* (mutant) a loop that stores the first request segment under every name.
RECURSIVE ExtractLoop_FirstSegment(_, _, _, _)
ExtractLoop_FirstSegment(patternSegments, requestSegments, i, params) ==
    IF i > Len(patternSegments) THEN params
    ELSE IF i <= Len(requestSegments)
            /\ HasPrefix(patternSegments[i], <<":">>)
         THEN ExtractLoop_FirstSegment(patternSegments, requestSegments, i + 1,
                  MapSet(params, Tail(patternSegments[i]),
                         requestSegments[1]))
    ELSE ExtractLoop_FirstSegment(patternSegments, requestSegments, i + 1,
                                  params)

\* (mutant) a loop that gives up at a literal segment the request differs in.
RECURSIVE ExtractLoop_LiteralsCompared(_, _, _, _)
ExtractLoop_LiteralsCompared(patternSegments, requestSegments, i, params) ==
    IF i > Len(patternSegments) THEN params
    ELSE IF i <= Len(requestSegments)
            /\ HasPrefix(patternSegments[i], <<":">>)
         THEN ExtractLoop_LiteralsCompared(patternSegments, requestSegments,
                  i + 1,
                  MapSet(params, Tail(patternSegments[i]),
                         requestSegments[i]))
    ELSE IF i <= Len(requestSegments)
            /\ requestSegments[i] # patternSegments[i]
         THEN EmptyMap
    ELSE ExtractLoop_LiteralsCompared(patternSegments, requestSegments,
                                      i + 1, params)

\* The loop of Extract from segment i on: a template segment that starts
\* with ":" stores the request segment of the same index under its name.
RECURSIVE ExtractLoop(_, _, _, _)
ExtractLoop(patternSegments, requestSegments, i, params) ==
    IF i > Len(patternSegments) THEN params
    ELSE IF i <= Len(requestSegments)
            /\ HasPrefix(patternSegments[i], <<":">>)
         THEN ExtractLoop(patternSegments, requestSegments, i + 1,
                  MapSet(params, Tail(patternSegments[i]),
                         requestSegments[i]))
    ELSE ExtractLoop(patternSegments, requestSegments, i + 1, params)

\* (mutant) a guard that only refuses a request shorter than the template.
CountsDiffer_Shorter(patternSegments, requestSegments) ==
    Len(requestSegments) < Len(patternSegments)

\* The guard of Extract: the two segment counts differ.
CountsDiffer(patternSegments, requestSegments) ==
    Len(patternSegments) # Len(requestSegments)

Extract(patternPath, requestPath) ==
    LET patternSegments == Split(patternPath, "/")
        requestSegments == Split(requestPath, "/")
    IN  IF CountsDiffer(patternSegments, requestSegments) THEN EmptyMap
        ELSE ExtractLoop(patternSegments, requestSegments, 1, EmptyMap)

---------------------------------------------------------------------------
(* The URL and header functions the Director calls: url.URL.Query,          *)
(* url.Values.Set and Encode, http.Header.Set, and the path join of         *)
(* httputil.NewSingleHostReverseProxy. A raw query is held as the sequence  *)
(* of its decoded <<key, value>> pairs.                                     *)

\* The characters of the model's strings, in byte order.
Alphabet ==
    <<"-", "/", "1", "2", ":", "K", "X", "a", "b", "c", "i", "k", "u", "v",
      "x", "z">>

Ord(c) == CHOOSE n \in 1..Len(Alphabet) : Alphabet[n] = c

\* s < t as Go compares strings: byte by byte, a proper prefix first.
RECURSIVE StringLess(_, _)
StringLess(s, t) ==
    IF t = <<>> THEN FALSE
    ELSE IF s = <<>> THEN TRUE
    ELSE IF Head(s) # Head(t) THEN Ord(Head(s)) < Ord(Head(t))
    ELSE StringLess(Tail(s), Tail(t))

\* url.URL.Query(): the values of each key, in the order they occur.
RECURSIVE ValuesOfKey(_, _)
ValuesOfKey(rawQuery, k) ==
    IF rawQuery = <<>> THEN <<>>
    ELSE (IF Head(rawQuery)[1] = k THEN <<Head(rawQuery)[2]>> ELSE <<>>)
             \o ValuesOfKey(Tail(rawQuery), k)

Query(rawQuery) ==
    [k \in {rawQuery[n][1] : n \in 1..Len(rawQuery)} |->
        ValuesOfKey(rawQuery, k)]

\* (mutant) a Set that leaves a key that has values as it is.
QuerySet_KeepExisting(q, key, value) ==
    IF key \in DOMAIN q THEN q ELSE MapSet(q, key, <<value>>)

\* url.Values.Set(key, value): the key's values become the one value.
QuerySet(q, key, value) == MapSet(q, key, <<value>>)

\* url.Values.Encode(): the keys in sorted order, each with its values.
RECURSIVE PairsOf(_, _)
PairsOf(k, vs) ==
    IF vs = <<>> THEN <<>> ELSE <<<<k, Head(vs)>>>> \o PairsOf(k, Tail(vs))

RECURSIVE EncodeKeys(_, _)
EncodeKeys(q, keys) ==
    IF keys = {} THEN <<>>
    ELSE LET k == CHOOSE x \in keys :
                      \A y \in keys \ {x} : StringLess(x, y)
         IN  PairsOf(k, q[k]) \o EncodeKeys(q, keys \ {k})

Encode(q) == EncodeKeys(q, DOMAIN q)

\* q.Set for every entry of a map[string]string; the entries have distinct
\* keys, so the order of the range does not show in the result.
RECURSIVE QuerySetAll(_, _, _)
QuerySetAll(q, m, keys) ==
    IF keys = {} THEN q
    ELSE LET k == CHOOSE x \in keys : TRUE
         IN  QuerySetAll(QuerySet(q, k, m[k]), m, keys \ {k})

\* textproto.CanonicalMIMEHeaderKey: the first letter and every letter
\* after a "-" in upper case, the others in lower case.
ToUpper(c) == CASE c = "x" -> "X" [] c = "k" -> "K" [] OTHER -> c
ToLower(c) == CASE c = "X" -> "x" [] c = "K" -> "k" [] OTHER -> c

RECURSIVE CanonicalFrom(_, _, _)
CanonicalFrom(key, i, upper) ==
    IF i > Len(key) THEN <<>>
    ELSE <<IF upper THEN ToUpper(key[i]) ELSE ToLower(key[i])>>
             \o CanonicalFrom(key, i + 1, key[i] = "-")

CanonicalHeaderKey(key) == CanonicalFrom(key, 1, TRUE)

\* (mutant) headers added only where the request has none of that name.
RECURSIVE HeaderSetAll_AddIfAbsent(_, _, _)
HeaderSetAll_AddIfAbsent(h, m, keys) ==
    IF keys = {} THEN h
    ELSE LET k == CHOOSE x \in keys : TRUE
         IN  HeaderSetAll_AddIfAbsent(
                 IF CanonicalHeaderKey(k) \in DOMAIN h THEN h
                 ELSE MapSet(h, CanonicalHeaderKey(k), <<m[k]>>),
                 m, keys \ {k})

\* http.Header.Set(key, value) for every entry of Endpoint.Headers.
RECURSIVE HeaderSetAll(_, _, _)
HeaderSetAll(h, m, keys) ==
    IF keys = {} THEN h
    ELSE LET k == CHOOSE x \in keys : TRUE
         IN  HeaderSetAll(MapSet(h, CanonicalHeaderKey(k), <<m[k]>>),
                          m, keys \ {k})

\* singleJoiningSlash(a, b) of net/http/httputil: a and b joined by exactly
\* one "/" where they meet.
SingleJoiningSlash(a, b) ==
    LET aslash == HasSuffix(a, <<"/">>)
        bslash == HasPrefix(b, <<"/">>)
    IN  IF aslash /\ bslash THEN a \o Tail(b)
        ELSE IF ~aslash /\ ~bslash THEN a \o <<"/">> \o b
        ELSE a \o b

---------------------------------------------------------------------------
(* The Director of Proxy.Handler on one request, step by step: the inputs  *)
(* are an endpoint, the inbound request and the proxy's pre-backend list.  *)

\* Endpoint.Path and the path of Endpoint.Backend, in pairs.
Templates ==
    { <<<<"/", "u">>, <<"/", "b">>>>,
      <<<<"/", "u", "/", ":", "a">>, <<"/", "b", "/", ":", "a">>>>,
      <<<<"/", ":", "a", "/", ":", "b">>, <<"/", ":", "a", "/", ":", "b">>>>,
      <<<<"/", ":", "a", "/", ":", "a", "b">>,
        <<"/", ":", "a", "b", "/", ":", "a">>>>,
      <<<<"/", ":", "a", "/", ":", "a">>, <<"/", "b", "/", ":", "a">>>> }

\* Endpoint.Headers and Endpoint.QueryParams.
HeaderMaps == {EmptyMap, <<"x", "-", "k">> :> <<"c">>}
QueryParamMaps == {EmptyMap, <<"a">> :> <<"c">>}

DirectorEndpoints ==
    { [Path |-> t[1], Backend |-> t[2], HasPathParams |-> f,
       Headers |-> h, QueryParams |-> q] :
          t \in Templates, f \in BOOLEAN, h \in HeaderMaps,
          q \in QueryParamMaps }

\* r.URL.Path, r.URL.RawQuery and r.Header of the inbound request.
RequestPaths ==
    { <<"/", "u">>,
      <<"/", "u", "/", "1">>,
      <<"/", "v", "/", "1">>,
      <<"/", "1", "/", "2">>,
      <<"/", ":", "b", "/", "2">>,
      <<"/", "u", "/", ":", "a">>,
      <<"/", "u", "/", "1", "/", "2">> }

RequestQueries ==
    { <<>>,
      <<<<<<"a">>, <<"i">>>>>>,
      <<<<<<"z">>, <<"i">>>>, <<<<"a">>, <<"i">>>>>> }

RequestHeaders == {EmptyMap, <<"X", "-", "K">> :> <<<<"i">>>>}

\* Proxy.preBackendCallbacks when the request arrives.
PreLists == {<<>>, <<"set">>}

IdleDctx ==
    [pc |-> "idle", via |-> "none",
     ep |-> [Path |-> <<>>, Backend |-> <<>>, HasPathParams |-> FALSE,
             Headers |-> EmptyMap, QueryParams |-> EmptyMap],
     inPath |-> <<>>, inQuery |-> <<>>, inHdrs |-> EmptyMap, pre |-> <<>>,
     outHost |-> "gateway", outPath |-> <<>>, outQuery |-> <<>>,
     outHdrs |-> EmptyMap,
     pathParams |-> EmptyMap, todo |-> {}, backendPath |-> <<>>,
     called |-> <<>>]

---------------------------------------------------------------------------
(* The LoggingResponseWriter around a net/http response writer, and the    *)
(* process as main runs it.                                                *)

\* NewLoggingResponseWriter(w): the captured status starts as 200, the
\* captured body empty; nothing has been written to w, whose status 0
\* stands for "no header written yet".
NewLoggingResponseWriter ==
    [statusCode |-> StatusOK, body |-> <<>>,
     wroteHeader |-> FALSE, wStatus |-> 0, wBody |-> <<>>, calls |-> 0]

\* main after gateway.Start() was launched: the server is listening, the
\* context is not cancelled, telemetry is up.
Serving ==
    [pc |-> "serving", telemetryUp |-> TRUE, atSignal |-> 0,
     inFlightAtSignal |-> FALSE]

---------------------------------------------------------------------------
(* NewProxy and the two registration methods of Proxy. *)

NewProxy == [pre |-> <<>>, post |-> <<>>]

AddPreBackendCallback(px, cb) == [px EXCEPT !.pre = Append(@, cb)]

AddPostBackendCallback(px, cb) == [px EXCEPT !.post = Append(@, cb)]

---------------------------------------------------------------------------
(* The request record: the state of Proxy.Handler's closure for one        *)
(* request.  Object 0 is the outbound request ReverseProxy built (outHdrs  *)
(* are its headers) or the response it received (resHdrs); dObj/dHdrs is    *)
(* the object held by the Director's variable req, mObj/mHdrs the object    *)
(* held by ModifyResponse's variable resp.                                  *)

\* The body of a backend response, in the chunks it is read in.
BackendBody == <<"chunk1", "chunk2">>

\* The statuses of a backend that also answers with a 5xx of its own.
WideStatuses == BackendStatuses \cup {StatusBadGateway}

IdleRq ==
    [pc |-> "idle", path |-> "/a", method |-> "GET",
     clientStatus |-> 0, clientHdrs |-> {}, lrwStatus |-> 0,
     attempts |-> 0, sentHdrs |-> {}, mode |-> "respond", waited |-> 0,
     preStart |-> <<>>, preSnap |-> <<>>, preIdx |-> 0, preLog |-> <<>>,
     outHdrs |-> {}, dObj |-> 0, dHdrs |-> {},
     postStart |-> <<>>, postSnap |-> <<>>, postIdx |-> 0, postLog |-> <<>>,
     resStatus |-> 0, resHdrs |-> {}, mObj |-> 0, mHdrs |-> {},
     resBody |-> <<>>, clientBody |-> <<>>, bodyWaited |-> 0,
     ev |-> <<>>]

Terminal == {"idle", "done", "panicked"}

InFlight == rq.pc \notin Terminal

Init ==
    /\ config \in [Paths -> Endpoints]
    /\ telemetry \in Telemetries
    /\ proxies = [p \in {} |-> NewProxy]
    /\ regs = 0
    /\ nreq = 0
    /\ rq = IdleRq
    /\ dctx = IdleDctx
    /\ lrw = NewLoggingResponseWriter
    /\ proc = Serving


---------------------------------------------------------------------------
(* Gateway: endpoint registration and callback registration. *)

\* Gateway.RegisterEndpoints: one Proxy per configured endpoint.  A second
\* call panics in ServeMux.HandleFunc (the pattern is already registered),
\* so the action is taken once.
RegisterEndpoints ==
    /\ DOMAIN proxies = {}
    /\ proxies' = [p \in DOMAIN config |-> NewProxy]
    /\ UNCHANGED <<lrw, proc, dctx, config, telemetry, regs, nreq, rq>>

\* (mutant) an AddPreBackendCallback that gives the callback to every
\* endpoint when the path has none.
GatewayAddPreBackendCallbackAt_UnknownToAll(path, cb) ==
    /\ regs < MaxRegs
    /\ regs' = regs + 1
    /\ proxies' = IF path \in DOMAIN proxies
                     THEN [proxies EXCEPT
                              ![path] = AddPreBackendCallback(@, cb)]
                     ELSE [p \in DOMAIN proxies |->
                              AddPreBackendCallback(proxies[p], cb)]
    /\ UNCHANGED <<lrw, proc, dctx, config, telemetry, nreq, rq>>

\* Gateway.AddPreBackendCallback(path, callback): appends to the proxy of
\* `path`; logs an error and changes nothing when no proxy has that path.
GatewayAddPreBackendCallbackAt(path, cb) ==
    /\ regs < MaxRegs
    /\ regs' = regs + 1
    /\ proxies' = IF path \in DOMAIN proxies
                     THEN [proxies EXCEPT
                              ![path] = AddPreBackendCallback(@, cb)]
                     ELSE proxies
    /\ UNCHANGED <<lrw, proc, dctx, config, telemetry, nreq, rq>>

\* The call, for any path and callback.
GatewayAddPreBackendCallback ==
    \E path \in GatewayPaths, cb \in Callbacks :
        GatewayAddPreBackendCallbackAt(path, cb)

\* Gateway.AddPostBackendCallback(path, callback).
GatewayAddPostBackendCallbackAt(path, cb) ==
    /\ regs < MaxRegs
    /\ regs' = regs + 1
    /\ proxies' = IF path \in DOMAIN proxies
                     THEN [proxies EXCEPT
                              ![path] = AddPostBackendCallback(@, cb)]
                     ELSE proxies
    /\ UNCHANGED <<lrw, proc, dctx, config, telemetry, nreq, rq>>

GatewayAddPostBackendCallback ==
    \E path \in GatewayPaths, cb \in Callbacks :
        GatewayAddPostBackendCallbackAt(path, cb)

\* (mutant) a broadcast that passes one endpoint over.
RegisterPreBackendCallbacks_AllButOne ==
    \E cb \in Callbacks :
        /\ regs < MaxRegs
        /\ regs' = regs + 1
        /\ proxies' = [p \in DOMAIN proxies |->
                          IF p = "/a" THEN proxies[p]
                          ELSE AddPreBackendCallback(proxies[p], cb)]
        /\ UNCHANGED <<lrw, proc, dctx, config, telemetry, nreq, rq>>

\* Gateway.RegisterPreBackendCallbacks(callback): every proxy of the map.
RegisterPreBackendCallbacks ==
    \E cb \in Callbacks :
        /\ regs < MaxRegs
        /\ regs' = regs + 1
        /\ proxies' = [p \in DOMAIN proxies |->
                          AddPreBackendCallback(proxies[p], cb)]
        /\ UNCHANGED <<lrw, proc, dctx, config, telemetry, nreq, rq>>

\* Gateway.RegisterPostBackendCallbacks(callback).
RegisterPostBackendCallbacks ==
    \E cb \in Callbacks :
        /\ regs < MaxRegs
        /\ regs' = regs + 1
        /\ proxies' = [p \in DOMAIN proxies |->
                          AddPostBackendCallback(proxies[p], cb)]
        /\ UNCHANGED <<lrw, proc, dctx, config, telemetry, nreq, rq>>

---------------------------------------------------------------------------
(* Proxy.Handler, step by step. *)

\* (mutant) the handler without its method check.
MethodRejected_NoCheck(e, m) == FALSE

\* (mutant) a method check made only once the backend URL has parsed.
MethodRejected_AfterParse(e, m) ==
    e.Method # "" /\ m # e.Method /\ ~UrlParseFails(e.Backend)

\* The method check of the handler.
MethodRejected(e, m) == e.Method # "" /\ m # e.Method

\* http.Error(w, ..., code) on the handler's own writer w: the status goes
\* to the caller; no LoggingResponseWriter exists yet.
HttpErrorRaw(r, code) ==
    [r EXCEPT !.clientStatus = code,
              !.ev = @ \o <<Ev("LogError", 0), Ev("Write", code)>>,
              !.pc = "done"]

\* The handler from its entry to the start of proxy.ServeHTTP: LogRequest,
\* the method check, url.Parse of the backend, and on success the
\* LoggingResponseWriter (status 200 until WriteHeader is called).
HandlerEntry ==
    \E path \in DOMAIN proxies, m \in Methods :
        /\ rq.pc \in Terminal
        /\ nreq < MaxRequests
        /\ nreq' = nreq + 1
        /\ LET r0 == [IdleRq EXCEPT !.path = path, !.method = m,
                                    !.preStart = proxies[path].pre,
                                    !.postStart = proxies[path].post,
                                    !.ev = <<Ev("LogRequest", 0)>>]
               e == config[path]
           IN  rq' = IF MethodRejected(e, m)
                        THEN HttpErrorRaw(r0, StatusMethodNotAllowed)
                     ELSE IF UrlParseFails(e.Backend)
                        THEN HttpErrorRaw(r0, StatusInternalServerError)
                     ELSE [r0 EXCEPT !.lrwStatus = StatusOK,
                                     !.pc = "director"]
        /\ UNCHANGED <<lrw, proc, dctx, config, telemetry, proxies, regs>>

\* (mutant) a handler that recovers a panic and answers 500.
Panicked_Recovered(r) ==
    [r EXCEPT !.pc = "finish",
              !.lrwStatus = StatusInternalServerError,
              !.clientStatus = StatusInternalServerError,
              !.ev = @ \o <<Ev("Panic", 0),
                            Ev("Write", StatusInternalServerError)>>]

\* A panic leaves the handler: nothing after it runs (net/http recovers it
\* per connection and the caller gets no response).
Panicked(r) == [r EXCEPT !.pc = "panicked", !.ev = @ \o <<Ev("Panic", 0)>>]

\* The Director up to its callback loop: the range expression reads the
\* pre-backend list once.  The read is unsynchronised: when the list was
\* appended to since the request arrived it may show any value the list
\* had since then, or a slice whose new element is not yet visible (a nil
\* func, whose call panics).
Director ==
    /\ rq.pc = "director"
    /\ LET cur == proxies[rq.path].pre
       IN  \/ \E snap \in Between(rq.preStart, cur) :
                 rq' = [rq EXCEPT !.pc = "pre", !.preSnap = snap]
           \/ /\ cur # rq.preStart
              /\ rq' = Panicked(rq)
    /\ UNCHANGED <<lrw, proc, dctx, config, telemetry, proxies, regs, nreq>>

\* (mutant) a loop that walks the list from its end.
NextCallback_Reversed(snap, idx) == snap[Len(snap) - idx]

\* The callback the loop calls next.
NextCallback(snap, idx) == snap[idx + 1]

\* req = callback(req): one iteration of the pre-backend loop.
PreBackendCallback ==
    /\ rq.pc = "pre"
    /\ rq.preIdx < Len(rq.preSnap)
    /\ LET cb == NextCallback(rq.preSnap, rq.preIdx)
           called == [rq EXCEPT !.preIdx = @ + 1,
                                !.ev = @ \o <<Ev("Pre", cb)>>]
       IN  rq' = CASE cb = "set" ->
                        [called EXCEPT
                            !.dHdrs = @ \cup {cb},
                            !.outHdrs = IF rq.dObj = 0 THEN @ \cup {cb} ELSE @,
                            !.preLog = Append(@, [cb |-> cb, in |-> rq.dObj,
                                                  out |-> rq.dObj])]
                   [] cb = "replace" ->
                        [called EXCEPT
                            !.dObj = rq.preIdx + 1,
                            !.dHdrs = @ \cup {cb},
                            !.preLog = Append(@, [cb |-> cb, in |-> rq.dObj,
                                                  out |-> rq.preIdx + 1])]
                   [] OTHER -> Panicked(called)
    /\ UNCHANGED <<lrw, proc, dctx, config, telemetry, proxies, regs, nreq>>

\* (mutant) a transport left without its response-header timeout.
TimeoutArmed_Never(e) == FALSE

\* (mutant) a transport that takes a zero timeout for a deadline.
TimeoutArmed_NonNegative(e) == e.Timeout >= 0

\* The transport of the reverse proxy has a response-header timeout only
\* for a positive Endpoint.Timeout.
TimeoutArmed(e) == e.Timeout > 0

\* The Director has returned: ReverseProxy sends its outbound request
\* (object 0) with one RoundTrip.
Dispatch ==
    /\ rq.pc = "pre"
    /\ rq.preIdx = Len(rq.preSnap)
    /\ \E mode \in BackendModes :
          rq' = [rq EXCEPT !.pc = "awaiting", !.attempts = @ + 1,
                           !.sentHdrs = rq.outHdrs, !.mode = mode,
                           !.waited = 0,
                           !.ev = @ \o <<Ev("RoundTrip", 0)>>]
    /\ UNCHANGED <<lrw, proc, dctx, config, telemetry, proxies, regs, nreq>>

\* Time passes while the response headers are awaited.
Tick ==
    /\ rq.pc = "awaiting"
    /\ rq.waited < MaxWait
    /\ rq' = [rq EXCEPT !.waited = @ + 1]
    /\ UNCHANGED <<lrw, proc, dctx, config, telemetry, proxies, regs, nreq>>

\* RoundTrip has returned an error.
RoundTripFailed(r) == [r EXCEPT !.ev = @ \o <<Ev("RoundTripError", 0)>>]

\* (mutant) an ErrorHandler that writes to the handler's own writer w
\* instead of the writer it is given, so that nothing is captured.
ErrorHandler_OuterWriter(r) ==
    [r EXCEPT !.pc = "finish",
              !.clientStatus = StatusBadGateway,
              !.ev = @ \o <<Ev("LogError", 0),
                            Ev("Write", StatusBadGateway)>>]

\* proxy.ErrorHandler(w, r, err), called by ReverseProxy with the
\* LoggingResponseWriter as w: LogError and http.Error on it, which
\* captures the status and passes it on.
ErrorHandler(r) ==
    [r EXCEPT !.pc = "finish",
              !.lrwStatus = StatusBadGateway,
              !.clientStatus = StatusBadGateway,
              !.ev = @ \o <<Ev("LogError", 0),
                            Ev("Write", StatusBadGateway)>>]

\* (mutant) a handler that sends the request again after a failed round
\* trip.
TransportFault_Retry ==
    /\ rq.pc = "awaiting"
    /\ rq.mode = "fault"
    /\ rq.attempts < 2
    /\ rq' = [rq EXCEPT !.attempts = @ + 1,
                        !.ev = @ \o <<Ev("RoundTripError", 0),
                                      Ev("RoundTrip", 0)>>]
    /\ UNCHANGED <<lrw, proc, dctx, config, telemetry, proxies, regs, nreq>>

\* RoundTrip fails before any response: connection refused, reset, ...
TransportFault ==
    /\ rq.pc = "awaiting"
    /\ rq.mode = "fault"
    /\ rq' = ErrorHandler(RoundTripFailed(rq))
    /\ UNCHANGED <<lrw, proc, dctx, config, telemetry, proxies, regs, nreq>>

\* (mutant) a deadline over the whole exchange, body transfer included.
HeaderTimeout_WholeExchange ==
    /\ rq.pc \in {"awaiting", "post"}
    /\ rq.mode \in {"respond", "hang"}
    /\ TimeoutArmed(config[rq.path])
    /\ rq.waited >= config[rq.path].Timeout
    /\ rq' = ErrorHandler(RoundTripFailed(rq))
    /\ UNCHANGED <<lrw, proc, dctx, config, telemetry, proxies, regs, nreq>>

\* RoundTrip fails because no response header came within the timeout.
HeaderTimeout ==
    /\ rq.pc = "awaiting"
    /\ rq.mode \in {"respond", "hang"}
    /\ TimeoutArmed(config[rq.path])
    /\ rq.waited >= config[rq.path].Timeout
    /\ rq' = ErrorHandler(RoundTripFailed(rq))
    /\ UNCHANGED <<lrw, proc, dctx, config, telemetry, proxies, regs, nreq>>

\* RoundTrip returns a response; ReverseProxy calls ModifyResponse, whose
\* range expression reads the post-backend list once (unsynchronised, as
\* in the Director).
BackendRespondsWith(statuses) ==
    /\ rq.pc = "awaiting"
    /\ rq.mode = "respond"
    /\ \E st \in statuses :
          LET got == [rq EXCEPT !.resStatus = st,
                                !.resBody = BackendBody,
                                !.ev = @ \o <<Ev("Response", st)>>]
              cur == proxies[rq.path].post
          IN  \/ \E snap \in Between(rq.postStart, cur) :
                    rq' = [got EXCEPT !.pc = "post", !.postSnap = snap]
              \/ /\ cur # rq.postStart
                 /\ rq' = Panicked(got)
    /\ UNCHANGED <<lrw, proc, dctx, config, telemetry, proxies, regs, nreq>>

BackendResponds == BackendRespondsWith(BackendStatuses)

\* The same with a backend of more statuses.
BackendRespondsWide == BackendRespondsWith(WideStatuses)

\* Time passes after the response headers have come, while the response is
\* worked on and its body is still to be copied.
TickBody ==
    /\ rq.pc = "post"
    /\ rq.waited < MaxWait
    /\ rq' = [rq EXCEPT !.waited = @ + 1, !.bodyWaited = @ + 1]
    /\ UNCHANGED <<lrw, proc, dctx, config, telemetry, proxies, regs, nreq>>

\* resp = callback(resp, r): one iteration of the post-backend loop.
PostBackendCallback ==
    /\ rq.pc = "post"
    /\ rq.postIdx < Len(rq.postSnap)
    /\ LET cb == NextCallback(rq.postSnap, rq.postIdx)
           called == [rq EXCEPT !.postIdx = @ + 1,
                                !.ev = @ \o <<Ev("Post", cb)>>]
       IN  rq' = CASE cb = "set" ->
                        [called EXCEPT
                            !.mHdrs = @ \cup {cb},
                            !.resHdrs = IF rq.mObj = 0 THEN @ \cup {cb} ELSE @,
                            !.postLog = Append(@, [cb |-> cb, in |-> rq.mObj,
                                                   out |-> rq.mObj])]
                   [] cb = "replace" ->
                        [called EXCEPT
                            !.mObj = rq.postIdx + 1,
                            !.mHdrs = @ \cup {cb},
                            !.postLog = Append(@, [cb |-> cb, in |-> rq.mObj,
                                                   out |-> rq.postIdx + 1])]
                   [] OTHER -> Panicked(called)
    /\ UNCHANGED <<lrw, proc, dctx, config, telemetry, proxies, regs, nreq>>

\* (mutant) a relay that answers 502 for every backend status from 400 on.
Relay_ErrorsAsBadGateway ==
    /\ rq.pc = "post"
    /\ rq.postIdx = Len(rq.postSnap)
    /\ LET st == IF rq.resStatus >= 400 THEN StatusBadGateway
                 ELSE rq.resStatus
       IN  rq' = [rq EXCEPT !.pc = "finish",
                            !.lrwStatus = st,
                            !.clientStatus = st,
                            !.clientHdrs = rq.resHdrs,
                            !.clientBody = rq.resBody,
                            !.ev = @ \o <<Ev("Write", st)>>]
    /\ UNCHANGED <<lrw, proc, dctx, config, telemetry, proxies, regs, nreq>>

\* ModifyResponse has returned nil: ReverseProxy copies the headers of its
\* response (object 0), writes its status through the
\* LoggingResponseWriter and copies its body after it.
Relay ==
    /\ rq.pc = "post"
    /\ rq.postIdx = Len(rq.postSnap)
    /\ rq' = [rq EXCEPT !.pc = "finish",
                        !.lrwStatus = rq.resStatus,
                        !.clientStatus = rq.resStatus,
                        !.clientHdrs = rq.resHdrs,
                        !.clientBody = rq.resBody,
                        !.ev = @ \o <<Ev("Write", rq.resStatus)>>]
    /\ UNCHANGED <<lrw, proc, dctx, config, telemetry, proxies, regs, nreq>>

\* After proxy.ServeHTTP: LogResponse, and RecordRequest when the proxy has
\* a telemetry manager, both with the captured status.
Finish ==
    /\ rq.pc = "finish"
    /\ rq' = [rq EXCEPT
                 !.pc = "done",
                 !.ev = @ \o <<Ev("LogResponse", rq.lrwStatus)>>
                          \o (IF telemetry # "nil"
                                 THEN <<Ev("RecordRequest", rq.lrwStatus)>>
                                 ELSE <<>>)]
    /\ UNCHANGED <<lrw, proc, dctx, config, telemetry, proxies, regs, nreq>>

Next ==
    \/ RegisterEndpoints
    \/ GatewayAddPreBackendCallback
    \/ GatewayAddPostBackendCallback
    \/ RegisterPreBackendCallbacks
    \/ RegisterPostBackendCallbacks
    \/ HandlerEntry
    \/ Director
    \/ PreBackendCallback
    \/ Dispatch
    \/ Tick
    \/ TransportFault
    \/ HeaderTimeout
    \/ BackendResponds
    \/ PostBackendCallback
    \/ Relay
    \/ Finish

Spec == Init /\ [][Next]_vars

\* The gateway as main builds it from a configuration whose endpoints all
\* have a positive timeout (as those of LoadDefault), with telemetry.
InitTimeout ==
    /\ Init
    /\ telemetry = "manager"
    /\ \A p \in DOMAIN config : config[p].Timeout > 0

\* That system with the scheduling the runtime guarantees: time passes,
\* an armed timer that is due fires, and a handler whose ServeHTTP call has
\* returned runs to its end.
SpecTimeout ==
    /\ InitTimeout
    /\ [][Next]_vars
    /\ WF_vars(Tick)
    /\ WF_vars(HeaderTimeout)
    /\ WF_vars(Finish)


---------------------------------------------------------------------------
(* The Director, step by step, on a request that passed the method check   *)
(* and whose backend URL parsed. The request reaches the handler through   *)
(* the gateway's ServeMux or by a direct call of Proxy.Handler().          *)

\* http.ServeMux: a pattern that ends in "/" matches every path it is a
\* prefix of, any other pattern matches the equal path only. A ":" in a
\* pattern has no special meaning.
PatternMatches(pattern, path) ==
    IF HasSuffix(pattern, <<"/">>) THEN HasPrefix(path, pattern)
    ELSE path = pattern

\* The patterns RegisterEndpoints and RegisterHealthCheck hand to the mux.
MuxPatterns(ep) == {ep.Path, <<"/", "h">>}

\* Whether the mux has a handler for the path (else it answers 404).
MuxFinds(patterns, path) == \E pt \in patterns : PatternMatches(pt, path)

\* The pattern the mux serves the path with: the longest that matches.
MuxPattern(patterns, path) ==
    CHOOSE pt \in patterns :
        /\ PatternMatches(pt, path)
        /\ \A o \in patterns : PatternMatches(o, path) => Len(o) <= Len(pt)

DirectorRest == <<config, telemetry, proxies, regs, nreq, rq, lrw, proc>>

\* Gateway.mux.ServeHTTP: the request goes to the endpoint's handler when
\* the endpoint's pattern is the one that matches, else nowhere.
ServeMux ==
    /\ dctx.pc = "new"
    /\ dctx' = [dctx EXCEPT
           !.via = "mux",
           !.pc = IF MuxFinds(MuxPatterns(dctx.ep), dctx.inPath)
                      /\ MuxPattern(MuxPatterns(dctx.ep), dctx.inPath)
                             = dctx.ep.Path
                  THEN "handler" ELSE "notfound"]
    /\ UNCHANGED DirectorRest

\* proxy.Handler()(w, r), called without the mux.
HandlerCalled ==
    /\ dctx.pc = "new"
    /\ dctx' = [dctx EXCEPT !.via = "direct", !.pc = "handler"]
    /\ UNCHANGED DirectorRest

\* (mutant) a Director that handles path parameters for every endpoint.
ParamsHandled_Always(ep) == TRUE

\* if p.endpoint.HasPathParams
ParamsHandled(ep) == ep.HasPathParams

\* originalDirector(req) and req.Host = backendURL.Host: the outbound
\* request is the inbound one, addressed to the backend's host, with the
\* backend's path joined in front of its own path.
OriginalDirector ==
    /\ dctx.pc = "handler"
    /\ dctx' = [dctx EXCEPT
           !.outHost = "backend",
           !.outPath = SingleJoiningSlash(dctx.ep.Backend, dctx.inPath),
           !.outQuery = dctx.inQuery,
           !.outHdrs = dctx.inHdrs,
           !.pc = IF ParamsHandled(dctx.ep) THEN "extract" ELSE "headers"]
    /\ UNCHANGED DirectorRest

\* (mutant) a Director that turns away a request whose segment count is
\* not the template's.
ExtractPathParams_RejectMismatch ==
    /\ dctx.pc = "extract"
    /\ LET pathParams == Extract(dctx.ep.Path, dctx.inPath)
       IN  dctx' = [dctx EXCEPT
               !.pathParams = pathParams,
               !.todo = DOMAIN pathParams,
               !.backendPath = dctx.outPath,
               !.pc = IF CountsDiffer(Split(dctx.ep.Path, "/"),
                                      Split(dctx.inPath, "/"))
                      THEN "rejected" ELSE "range"]
    /\ UNCHANGED DirectorRest

\* pathParams := p.endpoint.ExtractPathParams(r.URL.Path)
ExtractPathParams ==
    /\ dctx.pc = "extract"
    /\ LET pathParams == Extract(dctx.ep.Path, dctx.inPath)
       IN  dctx' = [dctx EXCEPT
               !.pathParams = pathParams,
               !.todo = DOMAIN pathParams,
               !.backendPath = dctx.outPath,
               !.pc = "range"]
    /\ UNCHANGED DirectorRest

\* One turn of "for paramName, paramValue := range pathParams": Go ranges
\* over a map in an order of its choosing.
SubstituteParam ==
    /\ dctx.pc = "range"
    /\ \E paramName \in dctx.todo :
         LET paramValue == dctx.pathParams[paramName]
         IN  dctx' = [dctx EXCEPT
                 !.backendPath =
                     Replace(dctx.backendPath, <<":">> \o paramName,
                             paramValue),
                 !.outQuery =
                     Encode(QuerySet(Query(dctx.outQuery), paramName,
                                     paramValue)),
                 !.todo = dctx.todo \ {paramName}]
    /\ UNCHANGED DirectorRest

\* req.URL.Path = backendPath, after the range.
SetBackendPath ==
    /\ dctx.pc = "range"
    /\ dctx.todo = {}
    /\ dctx' = [dctx EXCEPT !.outPath = dctx.backendPath, !.pc = "headers"]
    /\ UNCHANGED DirectorRest

\* req.Header.Set for every entry of Endpoint.Headers.
SetHeaders ==
    /\ dctx.pc = "headers"
    /\ dctx' = [dctx EXCEPT
           !.outHdrs = HeaderSetAll(dctx.outHdrs, dctx.ep.Headers,
                                    DOMAIN dctx.ep.Headers),
           !.pc = "query"]
    /\ UNCHANGED DirectorRest

\* q.Set for every entry of Endpoint.QueryParams, then
\* req.URL.RawQuery = q.Encode().
SetQueryParams ==
    /\ dctx.pc = "query"
    /\ dctx' = [dctx EXCEPT
           !.outQuery = Encode(QuerySetAll(Query(dctx.outQuery),
                                           dctx.ep.QueryParams,
                                           DOMAIN dctx.ep.QueryParams)),
           !.pc = "callbacks"]
    /\ UNCHANGED DirectorRest

\* The pre-backend callbacks, each called once, in list order.
RunPreCallbacks ==
    /\ dctx.pc = "callbacks"
    /\ dctx' = [dctx EXCEPT !.called = dctx.pre, !.pc = "sent"]
    /\ UNCHANGED DirectorRest

NextDirector ==
    \/ ServeMux
    \/ HandlerCalled
    \/ OriginalDirector
    \/ ExtractPathParams
    \/ SubstituteParam
    \/ SetBackendPath
    \/ SetHeaders
    \/ SetQueryParams
    \/ RunPreCallbacks

\* One request for one endpoint, both drawn from the pools.
InitDirector ==
    /\ config \in [Paths -> {[Method |-> "", Backend |-> BackendGood,
                             Timeout |-> 0]}]
    /\ telemetry = "nil"
    /\ proxies = [p \in {} |-> NewProxy]
    /\ regs = 0
    /\ nreq = 0
    /\ rq = IdleRq
    /\ lrw = NewLoggingResponseWriter
    /\ proc = Serving
    /\ \E ep \in DirectorEndpoints, inPath \in RequestPaths,
          inQuery \in RequestQueries, inHdrs \in RequestHeaders,
          pre \in PreLists :
         dctx = [IdleDctx EXCEPT !.pc = "new", !.ep = ep,
                                 !.inPath = inPath, !.inQuery = inQuery,
                                 !.inHdrs = inHdrs, !.pre = pre]

SpecDirector == InitDirector /\ [][NextDirector]_vars

---------------------------------------------------------------------------
(* The pipeline on one endpoint without method filter and with a backend   *)
(* URL that parses, its timeout negative, zero or positive, in front of a  *)
(* backend that may also answer 502 itself, with time passing after the    *)
(* response headers have come. Callbacks are registered on the response    *)
(* side only.                                                              *)

TransferTimeouts == {-1} \cup Timeouts

InitTransfer ==
    /\ config \in [Paths -> [Method : {""}, Backend : {BackendGood},
                            Timeout : TransferTimeouts]]
    /\ telemetry = "manager"
    /\ proxies = [p \in {} |-> NewProxy]
    /\ regs = 0
    /\ nreq = 0
    /\ rq = IdleRq
    /\ dctx = IdleDctx
    /\ lrw = NewLoggingResponseWriter
    /\ proc = Serving

NextTransfer ==
    \/ RegisterEndpoints
    \/ GatewayAddPostBackendCallback
    \/ HandlerEntry
    \/ Director
    \/ Dispatch
    \/ Tick
    \/ TransportFault
    \/ HeaderTimeout
    \/ BackendRespondsWide
    \/ TickBody
    \/ PostBackendCallback
    \/ Relay
    \/ Finish

SpecTransfer == InitTransfer /\ [][NextTransfer]_vars

---------------------------------------------------------------------------
(* The LoggingResponseWriter under any sequence of calls. The writer it    *)
(* wraps is the response writer of net/http: the first WriteHeader fixes   *)
(* the status, a Write before any WriteHeader fixes it as 200, and a       *)
(* status without body takes no bytes.                                     *)

MaxCalls == 4

\* The arguments of the calls.
WriterCodes == {200, 204, 404}
WriterChunks == {"x", "y"}

WriterRest == <<config, telemetry, proxies, regs, nreq, rq, dctx, proc>>

\* bodyAllowedForStatus of net/http.
BodyAllowed(code) == code \notin {204, 304} /\ ~(code >= 100 /\ code <= 199)

\* w.WriteHeader(code) on the wrapped writer: ignored once the header is
\* written.
UnderlyingWriteHeader(l, code) ==
    IF l.wroteHeader THEN l
    ELSE [l EXCEPT !.wroteHeader = TRUE, !.wStatus = code]

\* w.Write(b) on the wrapped writer: writes the header with 200 if none
\* was written, then the bytes if the status takes a body.
UnderlyingWrite(l, b) ==
    LET h == UnderlyingWriteHeader(l, StatusOK)
    IN  IF BodyAllowed(h.wStatus) THEN [h EXCEPT !.wBody = Append(@, b)]
        ELSE h

\* lrw.WriteHeader(code)
WriteHeader ==
    \E code \in WriterCodes :
        /\ lrw.calls < MaxCalls
        /\ lrw' = UnderlyingWriteHeader(
                      [lrw EXCEPT !.statusCode = code, !.calls = @ + 1],
                      code)
        /\ UNCHANGED WriterRest

\* lrw.Write(b)
Write ==
    \E b \in WriterChunks :
        /\ lrw.calls < MaxCalls
        /\ lrw' = UnderlyingWrite(
                      [lrw EXCEPT !.body = Append(@, b), !.calls = @ + 1],
                      b)
        /\ UNCHANGED WriterRest

NextWriter == WriteHeader \/ Write

InitWriter ==
    /\ config \in [Paths -> {[Method |-> "", Backend |-> BackendGood,
                             Timeout |-> 0]}]
    /\ telemetry = "nil"
    /\ proxies = [p \in {} |-> NewProxy]
    /\ regs = 0
    /\ nreq = 0
    /\ rq = IdleRq
    /\ dctx = IdleDctx
    /\ proc = Serving
    /\ lrw = NewLoggingResponseWriter

SpecWriter == InitWriter /\ [][NextWriter]_vars

---------------------------------------------------------------------------
(* The gateway as main runs it: the server serves requests until the       *)
(* process is gone; a signal cancels main's context, main shuts telemetry  *)
(* down and returns. The server is started with http.ListenAndServe and is *)
(* never told to shut down.                                                *)

MainRest == <<config, telemetry, proxies, regs, nreq, rq, dctx, lrw>>

\* The process is there: its goroutines run.
Alive == proc.pc \notin {"exited", "failed"}

\* The gateway at work while the process is there.
Serve == Alive /\ Next

\* SIGINT or SIGTERM: the signal goroutine calls cancel().
Signal ==
    /\ proc.pc = "serving"
    /\ proc' = [proc EXCEPT !.pc = "cancelled", !.atSignal = nreq,
                            !.inFlightAtSignal = InFlight]
    /\ UNCHANGED MainRest

\* case <-ctx.Done(): telemetry.Shutdown(context.Background())
TelemetryShutdown ==
    /\ proc.pc = "cancelled"
    /\ proc' = [proc EXCEPT !.pc = "telemetryDown", !.telemetryUp = FALSE]
    /\ UNCHANGED MainRest

\* main returns: the process exits with whatever its goroutines were doing.
Exit ==
    /\ proc.pc = "telemetryDown"
    /\ proc' = [proc EXCEPT !.pc = "exited"]
    /\ UNCHANGED MainRest

\* case err := <-errCh: ListenAndServe could not listen; LogFatal.
StartFailed ==
    /\ proc.pc = "serving"
    /\ nreq = 0
    /\ proc' = [proc EXCEPT !.pc = "failed"]
    /\ UNCHANGED MainRest

NextMain ==
    \/ Serve
    \/ Signal
    \/ TelemetryShutdown
    \/ Exit
    \/ StartFailed

\* main builds the gateway with a telemetry manager; the scheduler lets
\* main go on once its context is cancelled.
SpecMain ==
    /\ InitTimeout
    /\ [][NextMain]_vars
    /\ WF_vars(TelemetryShutdown)
    /\ WF_vars(Exit)

---------------------------------------------------------------------------
(* The gateway with one or two endpoints in its configuration, and its     *)
(* registration methods alone. With one endpoint the other path of         *)
(* GatewayPaths has no proxy at any time.                                  *)

InitGateway ==
    /\ config \in [ConfigPaths -> Endpoints] \cup [Paths -> Endpoints]
    /\ telemetry \in Telemetries
    /\ proxies = [p \in {} |-> NewProxy]
    /\ regs = 0
    /\ nreq = 0
    /\ rq = IdleRq
    /\ dctx = IdleDctx
    /\ lrw = NewLoggingResponseWriter
    /\ proc = Serving

NextGateway ==
    \/ RegisterEndpoints
    \/ GatewayAddPreBackendCallback
    \/ GatewayAddPostBackendCallback
    \/ RegisterPreBackendCallbacks
    \/ RegisterPostBackendCallbacks

SpecGateway == InitGateway /\ [][NextGateway]_vars

---------------------------------------------------------------------------
(* The request being served, for the claims. *)

Arrived == rq.pc # "idle"

\* The endpoint of the request being served.
Ep == config[rq.path]

\* No callback of either chain has been invoked for the request.
NoCallbackInvoked == Count(rq.ev, "Pre") = 0 /\ Count(rq.ev, "Post") = 0

\* The backend has not been contacted for the request.
NoBackendContact == rq.attempts = 0 /\ Count(rq.ev, "RoundTrip") = 0

---------------------------------------------------------------------------
\* C1: whatever the outcome of a request (relayed, 405, 500, 502), once the
\* handler has returned RecordRequest was invoked exactly once and exactly
\* one response log line was emitted, both after the status was written to
\* the caller and both carrying that status.
C1_OneSampleAndLogLinePerRequest ==
    rq.pc = "done" =>
        /\ Values(rq.ev, "RecordRequest") = <<rq.clientStatus>>
        /\ Values(rq.ev, "LogResponse") = <<rq.clientStatus>>
        /\ \A i \in Pos(rq.ev, "Write") :
              \A j \in Pos(rq.ev, "RecordRequest") \cup Pos(rq.ev, "LogResponse") :
                 i < j

\* C2: a request whose method differs from a non-empty method filter gets
\* 405, with no backend contact and no callback invoked; with an empty
\* filter no request gets 405.
C2_MethodFilter ==
    Arrived =>
        /\ (Ep.Method # "" /\ rq.method # Ep.Method) =>
              /\ rq.clientStatus = 405
              /\ NoBackendContact
              /\ NoCallbackInvoked
        /\ Ep.Method = "" => rq.clientStatus # 405

\* A request rejected for its method on an endpoint that has callbacks.
C2_Witness ==
    /\ rq.pc = "done"
    /\ Ep.Method = "GET" /\ rq.method = "POST"
    /\ rq.clientStatus = 405
    /\ proxies[rq.path].pre # <<>>
    /\ proxies[rq.path].post # <<>>

\* C3: a request that passes the method check on an endpoint whose backend
\* URL does not parse gets 500, with no backend contact and no callback
\* invoked.
C3_InvalidBackendURL ==
    (Arrived /\ ~(Ep.Method # "" /\ rq.method # Ep.Method)
             /\ Ep.Backend = BackendBad) =>
        /\ rq.clientStatus = 500
        /\ NoBackendContact
        /\ NoCallbackInvoked

\* A request answered 500 on an endpoint that has callbacks.
C3_Witness ==
    /\ rq.pc = "done"
    /\ Ep.Backend = BackendBad
    /\ rq.clientStatus = 500
    /\ proxies[rq.path].pre # <<>>
    /\ proxies[rq.path].post # <<>>

\* C4: a dispatched request whose round trip fails (connection fault or
\* response-header timeout) has 502 sent to the caller and captured for
\* logging and metrics, an error log entry, and no post-backend callback.
C4_TransportFault502 ==
    Count(rq.ev, "RoundTripError") > 0 =>
        /\ rq.attempts = 1
        /\ rq.clientStatus = 502
        /\ rq.lrwStatus = 502
        /\ Count(rq.ev, "LogError") = 1
        /\ Count(rq.ev, "Post") = 0
        /\ rq.pc = "done" =>
              /\ Values(rq.ev, "LogResponse") = <<502>>
              /\ telemetry # "nil" => Values(rq.ev, "RecordRequest") = <<502>>

\* A request failed by a connection fault, served to its end, on an
\* endpoint with a post-backend callback and with telemetry.
C4_Witness ==
    /\ rq.pc = "done"
    /\ rq.mode = "fault"
    /\ Count(rq.ev, "RoundTripError") = 1
    /\ rq.postStart # <<>>
    /\ telemetry = "manager"


\* C5: on an endpoint with a positive timeout, a dispatched request whose
\* backend never sends response headers ends with 502 (served to its end
\* with 502 logged), and the 502 does not come before the timeout has
\* elapsed.
C5_HeaderTimeoutEnds ==
    /\ (rq.pc = "awaiting" /\ rq.mode = "hang" /\ Ep.Timeout > 0)
          ~> (rq.pc = "done" /\ rq.clientStatus = 502
                             /\ Values(rq.ev, "LogResponse") = <<502>>)
    /\ [](rq.mode = "hang" /\ rq.clientStatus = 502
             => rq.waited >= Ep.Timeout)

\* A request to a silent backend, failed with 502 when the timeout elapsed.
C5_Witness ==
    /\ rq.pc = "done"
    /\ rq.mode = "hang"
    /\ Ep.Timeout = 2
    /\ rq.waited = 2
    /\ rq.clientStatus = 502


\* The backend's response has been written to the caller.
Relayed == rq.pc \in {"finish", "done"} /\ Count(rq.ev, "Response") = 1

\* Every event of type t comes before every event of type u.
Before(t, u) == \A i \in Pos(rq.ev, t) : \A j \in Pos(rq.ev, u) : i < j

\* C6: for a relayed request every pre-backend callback registered on the
\* endpoint when the request arrived ran once, before the round trip, and
\* every post-backend callback ran once, after the response and before its
\* relay; the header each pre-backend callback set is on the request the
\* backend got, the header each post-backend callback set is on the
\* response the caller got.
C6_CallbacksOnceAndEffective ==
    Relayed =>
        /\ IsPrefix(rq.preStart, Values(rq.ev, "Pre"))
        /\ IsPrefix(Values(rq.ev, "Pre"), proxies[rq.path].pre)
        /\ Before("Pre", "RoundTrip")
        /\ IsPrefix(rq.postStart, Values(rq.ev, "Post"))
        /\ IsPrefix(Values(rq.ev, "Post"), proxies[rq.path].post)
        /\ Before("Response", "Post")
        /\ Before("Post", "Write")
        /\ \A i \in Pos(rq.ev, "Pre") : rq.ev[i].v \in rq.sentHdrs
        /\ \A i \in Pos(rq.ev, "Post") : rq.ev[i].v \in rq.clientHdrs

\* The inputs of a chain of calls: the first call gets object 0, each
\* later call the object the call before it returned.
Chained(log) ==
    \A i \in DOMAIN log : log[i].in = IF i = 1 THEN 0 ELSE log[i - 1].out

\* C7: the callbacks invoked for a request are, in order, the first entries
\* of the endpoint's list, each given the object the one before returned;
\* and a registration only ever extends a list at its end.
C7_RegistrationOrder ==
    /\ [](Arrived =>
            /\ IsPrefix(Values(rq.ev, "Pre"), proxies[rq.path].pre)
            /\ IsPrefix(Values(rq.ev, "Post"), proxies[rq.path].post)
            /\ Chained(rq.preLog)
            /\ Chained(rq.postLog))
    /\ [][\A p \in DOMAIN proxies :
             /\ p \in DOMAIN proxies'
             /\ IsPrefix(proxies[p].pre, proxies'[p].pre)
             /\ IsPrefix(proxies[p].post, proxies'[p].post)]_vars

\* A request for which two different pre-backend callbacks ran in the order
\* of their registration, the second on the object the first returned.
C7_Witness ==
    /\ Arrived
    /\ proxies[rq.path].pre = <<"replace", "set">>
    /\ Values(rq.ev, "Pre") = <<"replace", "set">>
    /\ Len(rq.preLog) = 2
    /\ rq.preLog[2].in = rq.preLog[1].out
    /\ rq.preLog[2].in # 0

\* C8: the request sent to the backend is the request the last pre-backend
\* callback returned, with the headers of that request.
C8_LastCallbackResultIsSent ==
    Count(rq.ev, "RoundTrip") > 0 =>
        /\ rq.preLog # <<>> => rq.preLog[Len(rq.preLog)].out = 0
        /\ rq.sentHdrs = rq.dHdrs

\* C9: no callback list of an endpoint changes while a request of that
\* endpoint is in flight.
C9_NoRegistrationInFlight ==
    [][InFlight => proxies'[rq.path] = proxies[rq.path]]_vars

\* The method check and the backend URL parse both pass for the request.
ChecksPass == ~(Ep.Method # "" /\ rq.method # Ep.Method) /\ Ep.Backend # BackendBad

\* The handler has returned or has been left by a panic.
Ended == rq.pc \in {"done", "panicked"}

\* No callback was registered on the request's endpoint since it arrived.
NoRegistrationSinceArrival ==
    /\ proxies[rq.path].pre = rq.preStart
    /\ proxies[rq.path].post = rq.postStart

\* C10 as stated: a request gets exactly one backend attempt when the two
\* checks pass and none otherwise.  (Stated for the requests during which
\* no callback was registered, so that what refutes it is a request served
\* without any unsynchronised read of the lists.)
C10_OneAttemptIffChecksPass ==
    /\ rq.attempts <= 1
    /\ (Ended /\ NoRegistrationSinceArrival) =>
          rq.attempts = IF ChecksPass THEN 1 ELSE 0

\* A panic raised in the Director: on its read of the callback list (right
\* after LogRequest) or inside a pre-backend callback.
DirectorFault ==
    \E i \in Pos(rq.ev, "Panic") : i > 1 /\ rq.ev[i - 1].t \in {"LogRequest", "Pre"}

\* C10, amended: at most one backend attempt per request, none after a
\* failed one; exactly one when the two checks pass and the Director with
\* its pre-backend chain returns without a fault, none otherwise.
C10_AtMostOneAttempt ==
    /\ rq.attempts <= 1
    /\ Count(rq.ev, "RoundTrip") = rq.attempts
    /\ Ended => rq.attempts = IF ChecksPass /\ ~DirectorFault THEN 1 ELSE 0

\* A request whose only attempt timed out, served to its end without a
\* second attempt.
C10_Witness ==
    /\ rq.pc = "done"
    /\ rq.mode = "respond"
    /\ Count(rq.ev, "RoundTripError") = 1
    /\ rq.attempts = 1

---------------------------------------------------------------------------
(* The request the Director works on, for the claims. *)

\* The Director has extracted the path parameters of the request.
Extracted ==
    dctx.ep.HasPathParams
        /\ dctx.pc \in {"range", "headers", "query", "callbacks", "sent"}

PatternSegments == Split(dctx.ep.Path, "/")
RequestSegments == Split(dctx.inPath, "/")

\* The positions of the template's segments that start with ":".
CapturePositions ==
    {i \in 1..Len(PatternSegments) : HasPrefix(PatternSegments[i], <<":">>)}

CaptureNames == {Tail(PatternSegments[i]) : i \in CapturePositions}

\* The last position that captures under the name k.
LastCapture(k) ==
    CHOOSE i \in CapturePositions :
        /\ Tail(PatternSegments[i]) = k
        /\ \A j \in CapturePositions :
               Tail(PatternSegments[j]) = k => j <= i

\* C11: when the template and the request path have the same number of
\* segments, the extracted mapping has exactly the names of the template's
\* ":" segments as its keys, and the value of each key is the request
\* segment at the position of that capture (of the last one, should a name
\* be captured twice); a template without a capture gives the empty mapping.
C11_ExtractSamePosition ==
    (Extracted /\ Len(PatternSegments) = Len(RequestSegments))
        => /\ DOMAIN dctx.pathParams = CaptureNames
           /\ \A k \in CaptureNames :
                  dctx.pathParams[k] = RequestSegments[LastCapture(k)]

\* C11 witness: two parameters extracted from a two-capture template.
C11_Witness ==
    /\ Extracted
    /\ dctx.ep.Path = <<"/", ":", "a", "/", ":", "b">>
    /\ dctx.inPath = <<"/", "1", "/", "2">>
    /\ dctx.pathParams = (<<"a">> :> <<"1">>) @@ (<<"b">> :> <<"2">>)

\* C12: when the template and the request path have a different number of
\* segments, the extracted mapping is empty, whatever the segments are.
C12_ExtractCountMismatch ==
    (Extracted /\ Len(PatternSegments) # Len(RequestSegments))
        => dctx.pathParams = EmptyMap

\* C12 witness: a request one segment longer than its template, extracted
\* to the empty mapping.
C12_Witness ==
    /\ Extracted
    /\ dctx.ep.Path = <<"/", "u", "/", ":", "a">>
    /\ dctx.inPath = <<"/", "u", "/", "1", "/", "2">>
    /\ dctx.pathParams = EmptyMap

\* Two request paths agree in segment count and at the capture positions.
SameAtCaptures(p, q) ==
    /\ Len(Split(p, "/")) = Len(Split(q, "/"))
    /\ \A i \in CapturePositions :
           i <= Len(Split(p, "/")) => Split(p, "/")[i] = Split(q, "/")[i]

\* C13: the literal segments of the template are never compared with the
\* request: every request path with the segment count of the one extracted
\* and the same segments at the capture positions gives the same mapping.
C13_LiteralsNotCompared ==
    Extracted
        => \A q \in RequestPaths :
               SameAtCaptures(dctx.inPath, q)
                   => Extract(dctx.ep.Path, q) = dctx.pathParams

\* C13 witness: a request whose literal segment differs from the
\* template's, extracted all the same.
C13_Witness ==
    /\ Extracted
    /\ dctx.ep.Path = <<"/", "u", "/", ":", "a">>
    /\ dctx.inPath = <<"/", "v", "/", "1">>
    /\ dctx.pathParams = (<<"a">> :> <<"1">>)

\* The Director has finished its work on the outbound request.
Built == dctx.pc \in {"callbacks", "sent"}

\* The path originalDirector produced, before any substitution.
JoinedPath == SingleJoiningSlash(dctx.ep.Backend, dctx.inPath)

\* The names of params whose ":name" starts at position i of s.
NamesAt(s, i, params) ==
    {k \in DOMAIN params : HasPrefix(SubSeq(s, i, Len(s)), <<":">> \o k)}

\* s with every ":name" occurrence replaced by params[name], all at once:
\* read left to right, the longest name that fits taken at each place, the
\* values put in not read again.
RECURSIVE SubstitutedFrom(_, _, _)
SubstitutedFrom(s, i, params) ==
    IF i > Len(s) THEN <<>>
    ELSE IF NamesAt(s, i, params) # {}
         THEN LET k == CHOOSE x \in NamesAt(s, i, params) :
                           \A y \in NamesAt(s, i, params) : Len(y) <= Len(x)
              IN  params[k] \o SubstitutedFrom(s, i + 1 + Len(k), params)
    ELSE <<s[i]>> \o SubstitutedFrom(s, i + 1, params)

Substituted(s, params) == SubstitutedFrom(s, 1, params)

\* C14: for an endpoint with HasPathParams set and a request path of the
\* template's segment count, every ":name" occurrence in the outbound path
\* is replaced by the value extracted for name, and every extracted
\* parameter is a query parameter name=value of the outbound request unless
\* the endpoint configures a query parameter of that name.
C14_ParamsSubstituted ==
    (Built /\ Extracted /\ Len(PatternSegments) = Len(RequestSegments))
        => /\ dctx.outPath = Substituted(JoinedPath, dctx.pathParams)
           /\ \A k \in DOMAIN dctx.pathParams :
                  k \in DOMAIN dctx.ep.QueryParams
                      \/ (k \in DOMAIN Query(dctx.outQuery)
                            /\ Query(dctx.outQuery)[k]
                                   = <<dctx.pathParams[k]>>)

\* Every endpoint-configured header and query parameter is on the outbound
\* request with its configured value alone.
OverridesSet ==
    /\ \A h \in DOMAIN dctx.ep.Headers :
           /\ CanonicalHeaderKey(h) \in DOMAIN dctx.outHdrs
           /\ dctx.outHdrs[CanonicalHeaderKey(h)] = <<dctx.ep.Headers[h]>>
    /\ \A k \in DOMAIN dctx.ep.QueryParams :
           /\ k \in DOMAIN Query(dctx.outQuery)
           /\ Query(dctx.outQuery)[k] = <<dctx.ep.QueryParams[k]>>

\* C15: for every request the Director works on, HasPathParams set or not,
\* once the Director reaches its pre-backend callbacks every configured
\* header and query parameter is set on the outbound request with the
\* configured value, in place of any inbound value of that name; no
\* callback has run before that.
C15_OverridesBeforeCallbacks ==
    /\ Built => OverridesSet
    /\ dctx.called # <<>> => dctx.pc = "sent"

\* C15 witness: an endpoint without HasPathParams whose configured header
\* and query parameter replaced the inbound values, no callback called yet.
C15_Witness ==
    /\ dctx.pc = "callbacks"
    /\ ~dctx.ep.HasPathParams
    /\ dctx.pre # <<>>
    /\ dctx.called = <<>>
    /\ dctx.inHdrs = (<<"X", "-", "K">> :> <<<<"i">>>>)
    /\ dctx.outHdrs = (<<"X", "-", "K">> :> <<<<"c">>>>)
    /\ dctx.inQuery = <<<<<<"a">>, <<"i">>>>>>
    /\ dctx.outQuery = <<<<<<"a">>, <<"c">>>>>>

\* The names that are both extracted and configured as query parameters.
Contested ==
    IF Extracted
    THEN DOMAIN dctx.pathParams \cap DOMAIN dctx.ep.QueryParams
    ELSE {}

\* C16: a name both extracted and configured as a query parameter carries
\* the extracted value once the parameter range is over, and the configured
\* value once the Director has applied the query overrides.
C16_ConfiguredQueryWins ==
    \A k \in Contested :
        /\ dctx.pc \in {"headers", "query"}
               => Query(dctx.outQuery)[k] = <<dctx.pathParams[k]>>
        /\ Built => Query(dctx.outQuery)[k] = <<dctx.ep.QueryParams[k]>>

\* C16 witness: parameter a extracted as 1, configured as c, sent as c.
C16_Witness ==
    /\ dctx.pc = "sent"
    /\ Extracted
    /\ dctx.pathParams = (<<"a">> :> <<"1">>)
    /\ dctx.ep.QueryParams = (<<"a">> :> <<"c">>)
    /\ dctx.outQuery = <<<<<<"a">>, <<"c">>>>>>

\* C17 (as stated): the steps of the Director are applied only when the
\* endpoint has HasPathParams set; with the flag unset the request leaves
\* the Director as it came in, and no callback is called.
C17_BuilderOnlyWithFlag ==
    (dctx.pc = "sent" /\ ~dctx.ep.HasPathParams)
        => /\ dctx.outHost = "gateway"
           /\ dctx.outPath = dctx.inPath
           /\ dctx.outQuery = dctx.inQuery
           /\ dctx.outHdrs = dctx.inHdrs
           /\ dctx.called = <<>>

\* C17 (amended): only the parameter extraction, the path substitution and
\* the query duplication depend on HasPathParams. Every request leaves the
\* Director addressed to the backend, with the configured headers and query
\* parameters set and every pre-backend callback called; with the flag
\* unset no parameter is extracted, the joined path is left as it is and
\* the query holds the inbound pairs and the configured ones only; with the
\* flag set the parameters are those Extract gives.
C17_OnlyParamStepsGated ==
    dctx.pc = "sent"
        => /\ dctx.outHost = "backend"
           /\ OverridesSet
           /\ dctx.called = dctx.pre
           /\ ~dctx.ep.HasPathParams
                  => /\ dctx.pathParams = EmptyMap
                     /\ dctx.outPath = JoinedPath
                     /\ DOMAIN Query(dctx.outQuery)
                            = DOMAIN Query(dctx.inQuery)
                                  \cup DOMAIN dctx.ep.QueryParams
           /\ dctx.ep.HasPathParams
                  => /\ dctx.pathParams = Extract(dctx.ep.Path, dctx.inPath)
                     /\ DOMAIN dctx.pathParams
                            \subseteq DOMAIN Query(dctx.outQuery)

\* C17 witness: a request for an endpoint with a capture in its template
\* and the flag unset, sent with the configured header and its callback
\* called, its path joined and not substituted.
C17_Witness ==
    /\ dctx.pc = "sent"
    /\ ~dctx.ep.HasPathParams
    /\ dctx.ep.Path = <<"/", "u", "/", ":", "a">>
    /\ dctx.inPath = <<"/", "u", "/", "1">>
    /\ dctx.ep.Headers # EmptyMap
    /\ dctx.called = <<"set">>
    /\ dctx.outPath = <<"/", "b", "/", ":", "a", "/", "u", "/", "1">>

\* The endpoint is configured as its template reads: the flag is set when,
\* and only when, the template has a capture.
FlagAsTemplate == dctx.ep.HasPathParams <=> CaptureNames # {}

\* C18: the path sent to the backend is the path of the endpoint's backend
\* URL with its ":name" placeholders replaced by the extracted values, and
\* nothing else: the inbound path is not appended.
C18_BackendPathOnly ==
    (Built /\ FlagAsTemplate /\ Len(PatternSegments) = Len(RequestSegments))
        => dctx.outPath = Substituted(dctx.ep.Backend, dctx.pathParams)

\* The request path puts a value without ":" in every capture position of
\* the template and equals the template in every other segment.
Instantiates(path, template) ==
    LET ps == Split(template, "/")
        rs == Split(path, "/")
    IN  /\ Len(ps) = Len(rs)
        /\ \E i \in 1..Len(ps) : HasPrefix(ps[i], <<":">>)
        /\ \A i \in 1..Len(ps) :
               IF HasPrefix(ps[i], <<":">>)
               THEN rs[i] # <<>> /\ ~Contains(rs[i], <<":">>)
               ELSE rs[i] = ps[i]

\* C19: a request that comes through the gateway and whose path
\* instantiates the registered template of the endpoint is routed to the
\* endpoint's handler.
C19_TemplateRouted ==
    (dctx.via = "mux" /\ Instantiates(dctx.inPath, dctx.ep.Path))
        => dctx.pc # "notfound"

\* C20: a broadcast registration appends its callback once to the
\* corresponding list of every endpoint registered at the time, and leaves
\* the other list of each and the set of endpoints as they are; the
\* registration of the endpoints gives each of them two empty lists,
\* whatever was broadcast before.
C20_BroadcastAppendsOnce ==
    [][ /\ RegisterPreBackendCallbacks
            => \E cb \in Callbacks :
                   /\ DOMAIN proxies' = DOMAIN proxies
                   /\ \A p \in DOMAIN proxies :
                          /\ proxies'[p].pre = Append(proxies[p].pre, cb)
                          /\ proxies'[p].post = proxies[p].post
        /\ RegisterPostBackendCallbacks
            => \E cb \in Callbacks :
                   /\ DOMAIN proxies' = DOMAIN proxies
                   /\ \A p \in DOMAIN proxies :
                          /\ proxies'[p].post = Append(proxies[p].post, cb)
                          /\ proxies'[p].pre = proxies[p].pre
        /\ RegisterEndpoints
            => \A p \in DOMAIN proxies' :
                   proxies'[p].pre = <<>> /\ proxies'[p].post = <<>>
      ]_vars

\* C20 witness: two endpoints registered and one registration call made,
\* after which both have the callback in their pre-backend list and
\* nothing in the other.
C20_Witness ==
    /\ DOMAIN proxies = ConfigPaths
    /\ regs = 1
    /\ \A p \in ConfigPaths :
           proxies[p].pre = <<"set">> /\ proxies[p].post = <<>>

---------------------------------------------------------------------------
\* C27: the method check comes before the parse of the backend URL: a
\* request whose method differs from a non-empty filter gets 405 whether
\* the backend URL parses or not, and 500 is only given to a request that
\* passed the method check.
C27_MethodCheckFirst ==
    Arrived =>
        /\ (Ep.Method # "" /\ rq.method # Ep.Method)
               => rq.clientStatus = StatusMethodNotAllowed
        /\ rq.clientStatus = StatusInternalServerError
               => /\ Ep.Method = "" \/ rq.method = Ep.Method
                  /\ Ep.Backend = BackendBad

\* C27 witness: a request of the wrong method on an endpoint whose backend
\* URL does not parse, answered 405.
C27_Witness ==
    /\ rq.pc = "done"
    /\ Ep.Method = "GET" /\ rq.method = "POST"
    /\ Ep.Backend = BackendBad
    /\ rq.clientStatus = StatusMethodNotAllowed

\* The positions of the calls of a callback that raised a fault.
FaultCalls ==
    {i \in DOMAIN rq.ev : rq.ev[i].t \in {"Pre", "Post"}
                              /\ rq.ev[i].v = "fault"}

\* C22: a fault raised by a pre- or post-backend callback leaves the
\* handler as a panic: nothing is written to the caller, nothing of the
\* handler runs after it (no later callback, no response log), and after a
\* fault in a pre-backend callback the backend is not contacted.
C22_CallbackFaultPropagates ==
    \A i \in FaultCalls :
        /\ rq.pc = "panicked"
        /\ Len(rq.ev) = i + 1
        /\ rq.ev[i + 1].t = "Panic"
        /\ rq.clientStatus = 0
        /\ Count(rq.ev, "Write") = 0
        /\ rq.ev[i].t = "Pre" => NoBackendContact

\* C22 witness: a pre-backend chain whose first callback raised a fault,
\* with a second callback that was not called.
C22_Witness ==
    /\ rq.pc = "panicked"
    /\ rq.preSnap = <<"fault", "set">>
    /\ Values(rq.ev, "Pre") = <<"fault">>
    /\ rq.attempts = 0

\* The response headers of the backend have come for the request.
HeadersReceived == Count(rq.ev, "Response") = 1

\* C21: once the handler has relayed a backend response, the status and
\* the body the caller got are those the backend returned, whatever the
\* status is (404 and 502 as well as 200), and the captured status is the
\* same; the callbacks of the model alter headers only.
C21_RelayedVerbatim ==
    (HeadersReceived /\ rq.pc \in {"finish", "done"})
        => /\ rq.clientStatus = Values(rq.ev, "Response")[1]
           /\ rq.lrwStatus = Values(rq.ev, "Response")[1]
           /\ rq.clientBody = BackendBody
           /\ Count(rq.ev, "RoundTripError") = 0

\* C21 witness: a backend 404 relayed as 404 with its body, after a
\* post-backend callback set a header on the response.
C21_Witness ==
    /\ rq.pc = "done"
    /\ Values(rq.ev, "Response") = <<404>>
    /\ Values(rq.ev, "Post") = <<"set">>
    /\ rq.clientStatus = 404
    /\ rq.clientHdrs = {"set"}
    /\ rq.clientBody = BackendBody

\* C23: once the response headers have come, the timeout no longer
\* counts: however long the rest takes, no round-trip error is raised and
\* the caller is answered with the backend's status, if at all.
C23_TimeoutBoundsHeadersOnly ==
    HeadersReceived
        => /\ Count(rq.ev, "RoundTripError") = 0
           /\ Count(rq.ev, "LogError") = 0
           /\ rq.clientStatus \in {0, rq.resStatus}

\* C23 witness: a request on an endpoint with timeout 2 whose response
\* headers came in time and whose relay ended after the timeout had run
\* out, answered 200.
C23_Witness ==
    /\ rq.pc = "done"
    /\ Ep.Timeout = 2
    /\ rq.waited - rq.bodyWaited < Ep.Timeout
    /\ rq.waited > Ep.Timeout
    /\ rq.clientStatus = StatusOK

\* C24: on an endpoint whose timeout is zero or negative no round trip
\* fails for the time it takes: a round-trip error comes from a transport
\* fault only, and a request dispatched to a backend that never answers
\* stays dispatched.
C24_NoDeadlineWithoutTimeout ==
    (Arrived /\ Ep.Timeout <= 0)
        => /\ Count(rq.ev, "RoundTripError") > 0 => rq.mode = "fault"
           /\ (rq.attempts > 0 /\ rq.mode = "hang") => rq.pc = "awaiting"

\* C24 witness: a request on an endpoint with a negative timeout, still
\* awaiting a silent backend when the clock of the model has run out.
C24_Witness ==
    /\ Ep.Timeout < 0
    /\ rq.attempts = 1
    /\ rq.mode = "hang"
    /\ rq.waited = MaxWait
    /\ rq.pc = "awaiting"

\* The status the wrapped writer sends: the one its header was written
\* with, 200 if no header was written.
DeliveredStatus == IF lrw.wroteHeader THEN lrw.wStatus ELSE StatusOK

\* C25: after any sequence of WriteHeader and Write calls on the
\* LoggingResponseWriter the captured status is the status delivered to the
\* wrapped writer (200 when WriteHeader was never called) and the captured
\* body is the bytes delivered to it, in order.
C25_CaptureEqualsDelivered ==
    /\ lrw.statusCode = DeliveredStatus
    /\ lrw.body = lrw.wBody

\* C26: when the process has exited after a signal, telemetry was shut
\* down and the request that was in flight when the signal came has run to
\* its end.
C26_GracefulShutdown ==
    proc.pc = "exited"
        => /\ ~proc.telemetryUp
           /\ (proc.inFlightAtSignal /\ proc.atSignal = nreq)
                  => rq.pc \in {"done", "panicked"}

\* The first of a set of parameter names in the order of StringLess.
FirstName(names) ==
    CHOOSE k \in names : \A j \in names : j = k \/ StringLess(k, j)

\* The range of the Director run over the names in one fixed order, the
\* order of StringLess: the path after the strings.Replace of each.
RECURSIVE PathInOrder(_, _, _)
PathInOrder(path, params, names) ==
    IF names = {} THEN path
    ELSE LET k == FirstName(names)
         IN  PathInOrder(Replace(path, <<":">> \o k, params[k]), params,
                         names \ {k})

\* The same for the query: q.Set and q.Encode of each name in that order.
RECURSIVE QueryInOrder(_, _, _)
QueryInOrder(query, params, names) ==
    IF names = {} THEN query
    ELSE LET k == FirstName(names)
         IN  QueryInOrder(Encode(QuerySet(Query(query), k, params[k])),
                          params, names \ {k})

\* C28: for a given endpoint and inbound request the outbound path and
\* query after the substitution of the path parameters are the same in
\* every execution: whatever order the range over the extracted parameters
\* took, they are what the range gives in one fixed order.
C28_SubstitutionOrderIndependent ==
    (Extracted /\ dctx.pc = "headers")
        => /\ dctx.outPath
                  = PathInOrder(JoinedPath, dctx.pathParams,
                                DOMAIN dctx.pathParams)
           /\ dctx.outQuery
                  = QueryInOrder(dctx.inQuery, dctx.pathParams,
                                 DOMAIN dctx.pathParams)

\* The request is with the handler of an endpoint that has HasPathParams
\* set, and its path has not the segment count of the template.
CountMismatch ==
    /\ dctx.ep.HasPathParams
    /\ dctx.pc \notin {"idle", "new", "notfound"}
    /\ Len(PatternSegments) # Len(RequestSegments)

\* C29: a request with the handler of an endpoint that has HasPathParams
\* set and whose path has not the template's segment count is not turned
\* away: it goes on through the Director to the backend, its outbound path
\* is the joined path with every ":name" still in it, and its query gets
\* no parameter but the ones the endpoint configures.
C29_MismatchStillDispatched ==
    CountMismatch
        => /\ dctx.pc \in {"handler", "extract", "range", "headers",
                           "query", "callbacks", "sent"}
           /\ dctx.pc \in {"headers", "query", "callbacks", "sent"}
                  => dctx.outPath = JoinedPath
           /\ dctx.pc \in {"headers", "query"}
                  => dctx.outQuery = dctx.inQuery
           /\ Built
                  => DOMAIN Query(dctx.outQuery)
                         = DOMAIN Query(dctx.inQuery)
                               \cup DOMAIN dctx.ep.QueryParams

\* C29 witness: a request one segment longer than its template, sent to
\* the backend with ":a" still in its path and the query it came with.
C29_Witness ==
    /\ CountMismatch
    /\ dctx.pc = "sent"
    /\ dctx.ep.Path = <<"/", "u", "/", ":", "a">>
    /\ dctx.inPath = <<"/", "u", "/", "1", "/", "2">>
    /\ dctx.outPath = <<"/", "b", "/", ":", "a", "/", "u", "/", "1", "/", "2">>
    /\ dctx.ep.QueryParams = EmptyMap
    /\ dctx.inQuery = <<<<<<"a">>, <<"i">>>>>>
    /\ dctx.outQuery = dctx.inQuery

\* The proxies after a callback was added to one list of the proxy of
\* path alone: that list has the callback at its end, the other list of
\* that proxy and both lists of every other proxy are as before.
OnlyPreAppended(path, cb) ==
    /\ DOMAIN proxies' = DOMAIN proxies
    /\ proxies'[path].pre = Append(proxies[path].pre, cb)
    /\ proxies'[path].post = proxies[path].post
    /\ \A o \in DOMAIN proxies \ {path} : proxies'[o] = proxies[o]

OnlyPostAppended(path, cb) ==
    /\ DOMAIN proxies' = DOMAIN proxies
    /\ proxies'[path].post = Append(proxies[path].post, cb)
    /\ proxies'[path].pre = proxies[path].pre
    /\ \A o \in DOMAIN proxies \ {path} : proxies'[o] = proxies[o]

\* C30: AddPreBackendCallback / AddPostBackendCallback of the gateway with
\* a path that has no registered endpoint leaves every callback list of
\* every endpoint as it is; with a registered path it appends the callback
\* to the corresponding list of that endpoint and leaves every other list
\* as it is.
C30_AddTouchesOnlyItsEndpoint ==
    [][ \A path \in GatewayPaths, cb \in Callbacks :
            /\ GatewayAddPreBackendCallbackAt(path, cb)
                   => IF path \in DOMAIN proxies
                      THEN OnlyPreAppended(path, cb)
                      ELSE proxies' = proxies
            /\ GatewayAddPostBackendCallbackAt(path, cb)
                   => IF path \in DOMAIN proxies
                      THEN OnlyPostAppended(path, cb)
                      ELSE proxies' = proxies
      ]_vars

\* C30 witness: one endpoint registered, one call made with its path and
\* one with a path that has no endpoint: the callback of the first call is
\* alone in the endpoint's pre-backend list.
C30_Witness ==
    /\ DOMAIN config = Paths
    /\ DOMAIN proxies = Paths
    /\ regs = 2
    /\ proxies["/a"].pre = <<"set">>
    /\ proxies["/a"].post = <<>>

===========================================================================
